---- MODULE Spec2Model ----
(***************************************************************************)
(* Prodit: the Xero OAuth token lifecycle (server.js), the encrypted       *)
(* credential store (database/db.js) and the request pipeline xeroRequest. *)
(*                                                                         *)
(* Every HTTP handler is a process that runs between two awaits as one     *)
(* atomic step (Node's single-threaded event loop); handlers of different  *)
(* requests interleave at their awaits.  The provider (Xero) and the       *)
(* PostgreSQL table xero_connections are the shared environment.           *)
(***************************************************************************)
EXTENDS Integers, Sequences, FiniteSets, TLC

\* ----------------------------------------------------------------- bounds
MaxIssued   == 2    \* token bundles the provider issues in one behaviour
MaxClock    == 2    \* statements that stamp CURRENT_TIMESTAMP in one behaviour
MaxConns    == 2    \* organizations in one answer of the connections endpoint

\* ------------------------------------------------------------- value sets
Handlers  == {1, 2}                   \* the requests in flight: one, or two that interleave
Users     == {1, 2}                   \* users.id (SERIAL)
is_admin(u) == u = 1                  \* users.is_admin: user 1 administers, user 2 does not
NoUser    == 0                        \* a falsy req.session.userId: no session user
Tenants   == {"t1", "t2"}             \* Xero tenantId
TenantName(t) == IF t = "t1" THEN "Org A" ELSE "Org B"   \* Xero tenantName
Dates     == {20240101, 20240601}     \* createdDateUtc of a connection
Key       == "PRODIT_TOKEN_KEY"       \* the configured 32-byte key
Statuses  == {"200", "401", "500"}    \* HTTP statuses the provider answers with
Timeout   == "timeout"                \* no response at all (err.response undefined)
Routes    == { [method |-> "get",  urlPath |-> "/Items", config |-> "{}"],
               [method |-> "post", urlPath |-> "/Items", config |-> "{headers, data}"] }

Undefined == <<"undefined", 0>>       \* a missing JSON member
AccessToken(n)  == <<"access_token", n>>
RefreshToken(n) == <<"refresh_token", n>>
\* the JSON body of the n-th successful answer of the token endpoint
TokenResponse(n) == [access_token |-> AccessToken(n), refresh_token |-> RefreshToken(n)]

\* String(userId): the text of the state parameter the redirect carries
toString(u) == IF u = 1 THEN "1" ELSE IF u = 2 THEN "2" ELSE "0"
\* what a caller of /callback may put in ?state= ("" is an absent parameter)
StateParams == {"", "1", "2", "forged"}

\* -------------------------------------------------------------- variables
VARIABLES
    env,               \* process.env: the configuration the process was started with
    redirected,        \* the session users GET /auth/xero has sent to the provider
    users,             \* the ids of the rows of table users (schema.sql)
    xero_connections,  \* the rows of table xero_connections (schema.sql)
    xero_instances,    \* the rows of table xero_instances (add-multi-tenancy.js)
    now,               \* the database clock: the value of CURRENT_TIMESTAMP
    issued,            \* bundles the provider's token endpoint has issued
    req,               \* req[h]: the handler h, its locals and where it waits
    saving             \* saving[c]: the call c of saveXeroInstance and where it waits

vars == <<env, redirected, users, xero_connections, xero_instances, now, issued, req, saving>>

\* what the token lifecycle of server.js leaves alone
elsewhere == <<env, redirected, xero_instances, saving>>

\* ------------------------------------------------------ Credential Cipher
NoKey     == "undefined"              \* PRODIT_TOKEN_KEY is not set
OtherKey  == "ANOTHER_TOKEN_KEY"      \* a 32-byte key that is not Key
KeyConfigs == {Key, OtherKey, NoKey}  \* what the process may find in its environment

\* if (!ENC_KEY_B64) throw new Error('Encryption key not configured ...')
KeyConfigured == env.PRODIT_TOKEN_KEY # NoKey

\* crypto.randomBytes(12): the n-th draw; no two draws give the same 96 bits.
\* Bytes are written <<what, ..., changed>>: changed tells that some bit is not
\* the bit the program wrote.
randomBytes(n) == <<"iv", n, FALSE>>

\* JSON.stringify(tokens): the members that are defined, with their values
JSONstringify(tokens) ==
    <<"json", { <<m, tokens[m]>> : m \in { m \in DOMAIN tokens : tokens[m] # Undefined } }>>

\* JSON.parse(text), read through .access_token and .refresh_token
JSONparse(text) ==
    [ m \in {"access_token", "refresh_token"} |->
        IF \E member \in text[2] : member[1] = m
        THEN (CHOOSE member \in text[2] : member[1] = m)[2]
        ELSE Undefined ]

\* buffer.toString('base64'): the text of the bytes, in canonical form
toBase64(bytes) == <<"base64", bytes, "canonical">>

\* Buffer.from(text, 'base64'): the bytes of a text.  The decoder skips white
\* space, does not ask for the padding and ignores the bits of the last character
\* that belong to no byte: texts that are not canonical decode to the same bytes.
fromBase64(text) == text[2]

\* AES-256-GCM, symbolically: the ciphertext names the key, the iv and the
\* plaintext it was made of; the tag authenticates the key, the iv and the
\* ciphertext, and is 16 bytes long.
cipherUpdate(key, iv, plaintext) == <<"ciphertext", key, iv, plaintext, FALSE>>
getAuthTag(key, iv, ciphertext)  == <<"auth-tag", key, iv, ciphertext, "16 bytes", FALSE>>

\* as encryptTokens, but the iv returned for storage is not the iv of the cipher
encryptTokensDropsIv(tokens, iv) ==
    LET key       == env.PRODIT_TOKEN_KEY
        encrypted == cipherUpdate(key, iv, JSONstringify(tokens))
    IN  [ encrypted |-> toBase64(encrypted),
          iv        |-> toBase64(randomBytes(0)),
          tag       |-> toBase64(getAuthTag(key, iv, encrypted)) ]

\* encryptTokens with the iv it drew; the caller has seen to KeyConfigured
encryptTokens(tokens, iv) ==
    LET key       == env.PRODIT_TOKEN_KEY
        encrypted == cipherUpdate(key, iv, JSONstringify(tokens))
    IN  [ encrypted |-> toBase64(encrypted),
          iv        |-> toBase64(iv),
          tag       |-> toBase64(getAuthTag(key, iv, encrypted)) ]

\* what a caller of decryptTokens gets in place of tokens when it throws
ConfigFailure    == [access_token |-> <<"throw", 1>>, refresh_token |-> <<"throw", 1>>]
IntegrityFailure == [access_token |-> <<"throw", 0>>, refresh_token |-> <<"throw", 0>>]
Failures == {ConfigFailure, IntegrityFailure}

\* decipher.update: the plaintext of a ciphertext made under this key and iv;
\* of anything else bytes that JSON.parse cannot read
Decrypted(key, iv, ciphertext) ==
    IF /\ ciphertext[2] = key
       /\ ciphertext[3] = iv
       /\ ~ciphertext[5]
    THEN JSONparse(ciphertext[4])
    ELSE IntegrityFailure

\* the first bytes of a tag: 4, 8, 12, 13, 14 or 15 of its 16
Truncated(tag) == [ tag EXCEPT ![5] = "fewer bytes" ]

\* as decryptTokens, but decipher.final() is not called: nothing verifies the tag
decryptTokensUnverified(encrypted, iv, tag) ==
    IF ~KeyConfigured THEN {ConfigFailure}
    ELSE { Decrypted(env.PRODIT_TOKEN_KEY, fromBase64(iv), fromBase64(encrypted)) }

\* decryptTokens: every outcome the call may have.  decipher.final() throws
\* unless the tag given is the tag of (key, iv, ciphertext).  createDecipheriv is
\* called without authTagLength: setAuthTag then takes a tag of fewer than 16
\* bytes on the Node.js releases that still allow it, and final() compares that
\* many bytes only; on the others setAuthTag throws.
decryptTokens(encrypted, iv, tag) ==
    IF ~KeyConfigured THEN {ConfigFailure}
    ELSE LET key        == env.PRODIT_TOKEN_KEY
             ciphertext == fromBase64(encrypted)
             nonce      == fromBase64(iv)
             expected   == getAuthTag(key, nonce, ciphertext)
         IN  IF fromBase64(tag) = expected
             THEN { Decrypted(key, nonce, ciphertext) }
             ELSE IF fromBase64(tag) = Truncated(expected)
             THEN { Decrypted(key, nonce, ciphertext), IntegrityFailure }
             ELSE { IntegrityFailure }

\* ------------------------------------------------------- Credential Store
NoTenant == "null"     \* the default tenantId = null of getXeroConnection

\* as UpsertRow, but a plain INSERT into a table without the UNIQUE constraint
InsertRow(rows, row) == rows \cup {row}

\* INSERT ... ON CONFLICT (user_id, tenant_id) DO UPDATE SET ...: the rows after
\* the statement.  A conflicting row keeps its key and created_at and takes the
\* EXCLUDED values.
UpsertRow(rows, row) ==
    LET conflict == { r \in rows : r.user_id = row.user_id /\ r.tenant_id = row.tenant_id }
    IN  (rows \ conflict)
          \cup { [ row EXCEPT !.created_at = r.created_at ] : r \in conflict }
          \cup (IF conflict = {} THEN {row} ELSE {})

saveXeroConnection(rows, userId, tenantId, tenantName, tokens, isSystemConnection, iv, ts) ==
    LET sealed == encryptTokens(tokens, iv)
    IN  UpsertRow(rows,
            [ user_id              |-> userId,
              tenant_id            |-> tenantId,
              tenant_name          |-> tenantName,
              encrypted_tokens     |-> sealed.encrypted,
              encryption_iv        |-> sealed.iv,
              encryption_tag       |-> sealed.tag,
              is_system_connection |-> isSystemConnection,
              created_at           |-> ts,
              last_synced          |-> ts ])

\* ORDER BY last_synced DESC LIMIT 1: every row the statement may return
\* (rows that tie on last_synced come in an order SQL leaves open)
MostRecent(rows) ==
    { r \in rows : \A q \in rows : q.last_synced <= r.last_synced }

\* the objects getXeroConnection / getSystemXeroConnection may build from a row;
\* tokens in Failures stands for the call throwing what decryptTokens threw
Connection(row) ==
    { [ userId   |-> row.user_id,
        tenantId |-> row.tenant_id,
        tenantName |-> row.tenant_name,
        tokens   |-> tokens,
        lastSynced |-> row.last_synced ] :
      tokens \in decryptTokens(row.encrypted_tokens, row.encryption_iv, row.encryption_tag) }

\* the connections the call may return; {} stands for null
getXeroConnection(rows, userId, tenantId) ==
    LET matching == IF tenantId # NoTenant
                    THEN { r \in rows : r.user_id = userId /\ r.tenant_id = tenantId }
                    ELSE { r \in rows : r.user_id = userId }
    IN  UNION { Connection(r) : r \in MostRecent(matching) }

getSystemXeroConnection(rows) ==
    UNION { Connection(r) : r \in MostRecent({ r \in rows : r.is_system_connection }) }

\* SELECT id, tenant_id, tenant_name, last_synced, created_at ... WHERE
\* user_id = $1: one entry for each matching row, the columns selected from it
getAllXeroConnections(rows, userId) ==
    [ r \in { q \in rows : q.user_id = userId } |->
        [ tenant_id |-> r.tenant_id, tenant_name |-> r.tenant_name,
          last_synced |-> r.last_synced, created_at |-> r.created_at ] ]

\* as deleteXeroConnection, but the statement matches the tenant only
deleteXeroConnectionOfTenant(rows, userId, tenantId) ==
    { r \in rows : r.tenant_id # tenantId }

\* DELETE FROM xero_connections WHERE user_id = $1 AND tenant_id = $2
deleteXeroConnection(rows, userId, tenantId) ==
    { r \in rows : ~(r.user_id = userId /\ r.tenant_id = tenantId) }

\* as updateXeroTokens, but the statement leaves last_synced as it was
updateXeroTokensKeepsStamp(rows, userId, tenantId, tokens, iv, ts) ==
    LET sealed == encryptTokens(tokens, iv)
    IN  { IF r.user_id = userId /\ r.tenant_id = tenantId
          THEN [ r EXCEPT !.encrypted_tokens = sealed.encrypted,
                          !.encryption_iv    = sealed.iv,
                          !.encryption_tag   = sealed.tag ]
          ELSE r : r \in rows }

\* as updateXeroTokens, but only the access token of the response is sealed
updateXeroTokensAccessOnly(rows, userId, tenantId, tokens, iv, ts) ==
    LET sealed == encryptTokens([ access_token |-> tokens.access_token,
                                  refresh_token |-> Undefined ], iv)
    IN  { IF r.user_id = userId /\ r.tenant_id = tenantId
          THEN [ r EXCEPT !.encrypted_tokens = sealed.encrypted,
                          !.encryption_iv    = sealed.iv,
                          !.encryption_tag   = sealed.tag,
                          !.last_synced      = ts ]
          ELSE r : r \in rows }

\* as updateXeroTokens, but the statement matches the tenant only
updateXeroTokensOfTenant(rows, userId, tenantId, tokens, iv, ts) ==
    LET sealed == encryptTokens(tokens, iv)
    IN  { IF r.tenant_id = tenantId
          THEN [ r EXCEPT !.encrypted_tokens = sealed.encrypted,
                          !.encryption_iv    = sealed.iv,
                          !.encryption_tag   = sealed.tag,
                          !.last_synced      = ts ]
          ELSE r : r \in rows }

\* as updateXeroTokens, but a row is inserted when the statement matches none
updateXeroTokensOrInsert(rows, userId, tenantId, tokens, iv, ts) ==
    saveXeroConnection(rows, userId, tenantId, TenantName(tenantId), tokens,
                       is_admin(userId), iv, ts)

\* as updateXeroTokens, but the refresh token the row holds is kept and sealed
\* with the new access token
updateXeroTokensMergesBundle(rows, userId, tenantId, tokens, iv, ts) ==
    { IF r.user_id = userId /\ r.tenant_id = tenantId
      THEN LET held   == CHOOSE t \in decryptTokens(r.encrypted_tokens, r.encryption_iv,
                                                     r.encryption_tag) : TRUE
               sealed == encryptTokens([ access_token  |-> tokens.access_token,
                                         refresh_token |-> held.refresh_token ], iv)
           IN  [ r EXCEPT !.encrypted_tokens = sealed.encrypted,
                          !.encryption_iv    = sealed.iv,
                          !.encryption_tag   = sealed.tag,
                          !.last_synced      = ts ]
      ELSE r : r \in rows }

\* UPDATE xero_connections SET encrypted_tokens, encryption_iv, encryption_tag,
\* last_synced WHERE user_id = $4 AND tenant_id = $5
updateXeroTokens(rows, userId, tenantId, tokens, iv, ts) ==
    LET sealed == encryptTokens(tokens, iv)
    IN  { IF r.user_id = userId /\ r.tenant_id = tenantId
          THEN [ r EXCEPT !.encrypted_tokens = sealed.encrypted,
                          !.encryption_iv    = sealed.iv,
                          !.encryption_tag   = sealed.tag,
                          !.last_synced      = ts ]
          ELSE r : r \in rows }

deleteSystemXeroConnection(rows) ==
    { r \in rows : ~r.is_system_connection }

\* ------------------------------------------------- handlers and their locals
NoTokenInfo == [ accessToken |-> Undefined, refreshToken |-> Undefined,
                 tenantId |-> NoTenant, connectionUserId |-> NoUser ]
NoTokens    == [ access_token |-> Undefined, refresh_token |-> Undefined ]
NoRoute     == [ method |-> "none", urlPath |-> "none", config |-> "none" ]
NoChosen    == [ tenantId |-> NoTenant, tenantName |-> "none", createdDateUtc |-> 0 ]
NoOutcome   == [ kind |-> "pending", status |-> "none", data |-> "none" ]

\* a handler that serves no request
Idle ==
    [ pc        |-> "idle",      \* the await the handler is suspended at
      handler   |-> "none",      \* "xeroRequest" or "callback"
      userId    |-> NoUser,      \* req.userId / req.session.userId
      isAdmin   |-> FALSE,       \* req.isAdmin
      state     |-> "",          \* req.query.state
      route     |-> NoRoute,     \* method, urlPath (and config) of the proxied call
      tokenInfo |-> NoTokenInfo, \* the result of ensureValidToken
      newTokens |-> NoTokens,    \* tokenResp.data
      chosen    |-> NoChosen,    \* the organization the callback picked
      lastSynced |-> 0,          \* connection.lastSynced as ensureValidToken read it
      wire      |-> <<>>,        \* what this handler has sent to the provider, with the answers
      outcome   |-> NoOutcome ]  \* what the handler returned or threw

\* one request on the wire and, once it is there, its answer
ApiRequest(route, accessToken, tenantId) ==
    [ url |-> "XERO_API", method |-> route.method, urlPath |-> route.urlPath,
      config |-> route.config,
      bearer |-> accessToken, tenant |-> tenantId, grant |-> Undefined,
      status |-> "pending", data |-> "none", tokens |-> NoTokens ]
RefreshRequest(refreshToken) ==
    [ url |-> "XERO_TOKEN", method |-> "post", urlPath |-> "refresh_token",
      config |-> "{headers}",
      bearer |-> Undefined, tenant |-> NoTenant, grant |-> refreshToken,
      status |-> "pending", data |-> "none", tokens |-> NoTokens ]
CodeRequest ==
    [ url |-> "XERO_TOKEN", method |-> "post", urlPath |-> "authorization_code",
      config |-> "{headers}",
      bearer |-> Undefined, tenant |-> NoTenant, grant |-> Undefined,
      status |-> "pending", data |-> "none", tokens |-> NoTokens ]
ConnRequest(accessToken) ==
    [ url |-> "XERO_CONN", method |-> "get", urlPath |-> "/connections",
      config |-> "{headers}",
      bearer |-> accessToken, tenant |-> NoTenant, grant |-> Undefined,
      status |-> "pending", data |-> "none", tokens |-> NoTokens ]

\* the wire with the answer to its last request filled in
Answered(wire, status, data) ==
    [ wire EXCEPT ![Len(wire)] = [ @ EXCEPT !.status = status, !.data = data ] ]

\* the wire with a bundle from the token endpoint as the answer to its last request
Granted(wire, tokens) ==
    [ wire EXCEPT ![Len(wire)] =
        [ @ EXCEPT !.status = "200", !.data = "tokens", !.tokens = tokens ] ]

\* the body the provider sends with a status
BodyOf(status) == IF status = "200" THEN "Items" ELSE "Fault"

Returned(data)      == [ kind |-> "returned", status |-> "200", data |-> data ]
Thrown(kind, status, data) == [ kind |-> kind, status |-> status, data |-> data ]

\* the errors of the cipher, as they leave a handler
KeyNotConfigured ==
    Thrown("ConfigError", "500", "Encryption key not configured (PRODIT_TOKEN_KEY)")
DecryptThrew(failure) ==
    IF failure = ConfigFailure
    THEN KeyNotConfigured
    ELSE Thrown("IntegrityError", "500", "Unsupported state or unable to authenticate data")

\* A request is taken by the first handler that is free, and a handler that has
\* returned or thrown answers its client in the same turn of the event loop,
\* before any other handler runs.
Accepts(h) ==
    /\ \A g \in Handlers : req[g].pc # "done"
    /\ req[h].pc = "idle"
    /\ \A g \in Handlers : g < h => req[g].pc # "idle"

Resumes(h, pc) ==
    /\ \A g \in Handlers : req[g].pc # "done"
    /\ req[h].pc = pc

\* ---------------------------------------------------------- Request Pipeline
\* ensureValidToken: the tokenInfo built from a connection
ensureValidToken(connection) ==
    [ accessToken      |-> connection.tokens.access_token,
      refreshToken     |-> connection.tokens.refresh_token,
      tenantId         |-> connection.tenantId,
      connectionUserId |-> connection.userId ]

\* as ResolveConnection, but every caller is served from its own connections
ResolveOwnConnection(rows, userId, isAdmin) ==
    getXeroConnection(rows, userId, NoTenant)

\* as ResolveConnection, but a caller without a connection by the rule is served
\* from whatever connection is stored
ResolveAnyConnection(rows, userId, isAdmin) ==
    LET byRule == IF isAdmin THEN getXeroConnection(rows, userId, NoTenant)
                             ELSE getSystemXeroConnection(rows)
    IN  IF byRule # {} THEN byRule ELSE UNION { Connection(r) : r \in MostRecent(rows) }

\* the connections ensureValidToken may get from the store ({}: null)
ResolveConnection(rows, userId, isAdmin) ==
    IF isAdmin THEN getXeroConnection(rows, userId, NoTenant)
               ELSE getSystemXeroConnection(rows)

\* as ShouldRefresh, but any failure status of the provider counts as expiry
ShouldRefreshOnAnyFailure(status, tokenInfo) ==
    status \in Statuses \ {"200"} /\ tokenInfo.refreshToken # Undefined

\* the test of the catch block of xeroRequest
ShouldRefresh(status, tokenInfo) ==
    status = "401" /\ tokenInfo.refreshToken # Undefined

\* as XeroRequestStart, but a tokenInfo another call in flight for the same caller
\* holds in memory is used in place of a read of the store
XeroRequestStartFromCache(h, userId, isAdmin, route) ==
    /\ Accepts(h)
    /\ LET found  == ResolveConnection(xero_connections, userId, isAdmin)
           cached == { g \in Handlers : /\ req[g].handler = "xeroRequest"
                                        /\ req[g].userId = userId
                                        /\ req[g].pc \in {"first", "refresh", "persist", "retry"} }
           me     == [ Idle EXCEPT !.handler = "xeroRequest", !.userId = userId,
                                   !.isAdmin = isAdmin, !.route = route ]
       IN  IF cached # {}
           THEN \E g \in cached :
                  req' = [ req EXCEPT ![h] =
                    [ me EXCEPT !.pc = "first",
                                !.tokenInfo = req[g].tokenInfo,
                                !.lastSynced = req[g].lastSynced,
                                !.wire = << ApiRequest(route, req[g].tokenInfo.accessToken,
                                                       req[g].tokenInfo.tenantId) >> ] ]
           ELSE IF found = {}
           THEN req' = [ req EXCEPT ![h] =
                    [ me EXCEPT !.pc = "done",
                                !.outcome = Thrown("NoConnectionError", "none", "none") ] ]
           ELSE \E connection \in found :
                  LET tokenInfo == ensureValidToken(connection)
                  IN  req' = [ req EXCEPT ![h] =
                        IF connection.tokens \in Failures
                        THEN [ me EXCEPT !.pc = "done",
                                         !.outcome = DecryptThrew(connection.tokens) ]
                        ELSE [ me EXCEPT !.pc = "first",
                                         !.tokenInfo = tokenInfo,
                                         !.lastSynced = connection.lastSynced,
                                         !.wire = << ApiRequest(route, tokenInfo.accessToken,
                                                                tokenInfo.tenantId) >> ] ]
    /\ UNCHANGED <<elsewhere, users, xero_connections, now, issued>>

\* xeroRequest up to its first await of the provider: ensureValidToken, then
\* makeRequest(tokenInfo.accessToken)
XeroRequestStart(h, userId, isAdmin, route) ==
    /\ Accepts(h)
    /\ LET found == ResolveConnection(xero_connections, userId, isAdmin)
           me    == [ Idle EXCEPT !.handler = "xeroRequest", !.userId = userId,
                                  !.isAdmin = isAdmin, !.route = route ]
       IN  IF found = {}
           THEN req' = [ req EXCEPT ![h] =
                    [ me EXCEPT !.pc = "done",
                                !.outcome = Thrown("NoConnectionError", "none", "none") ] ]
           ELSE \E connection \in found :
                  LET tokenInfo == ensureValidToken(connection)
                  IN  req' = [ req EXCEPT ![h] =
                        IF connection.tokens \in Failures
                        THEN [ me EXCEPT !.pc = "done",
                                         !.outcome = DecryptThrew(connection.tokens) ]
                        ELSE [ me EXCEPT !.pc = "first",
                                         !.tokenInfo = tokenInfo,
                                         !.lastSynced = connection.lastSynced,
                                         !.wire = << ApiRequest(route, tokenInfo.accessToken,
                                                                tokenInfo.tenantId) >> ] ]
    /\ UNCHANGED <<elsewhere, users, xero_connections, now, issued>>

\* the first attempt is answered (or times out): return, refresh, or rethrow
XeroRequestFirstAnswer(h, status) ==
    /\ Resumes(h, "first")
    /\ LET me   == req[h]
           wire == Answered(me.wire, status, BodyOf(status))
       IN  req' = [ req EXCEPT ![h] =
             IF status = "200"
             THEN [ me EXCEPT !.pc = "done", !.wire = wire,
                              !.outcome = Returned(wire[Len(wire)].data) ]
             ELSE IF ShouldRefresh(status, me.tokenInfo)
             THEN [ me EXCEPT !.pc = "refresh",
                              !.wire = Append(wire, RefreshRequest(me.tokenInfo.refreshToken)) ]
             ELSE [ me EXCEPT !.pc = "done", !.wire = wire,
                              !.outcome = Thrown("UpstreamError", status, wire[Len(wire)].data) ] ]
    /\ UNCHANGED <<elsewhere, users, xero_connections, now, issued>>

\* as RefreshRejected, but the handler drops the connection it could not refresh
RefreshRejectedDropsRecord(h) ==
    /\ Resumes(h, "refresh")
    /\ LET me   == req[h]
           wire == Answered(me.wire, "400", "invalid_grant")
       IN  /\ req' = [ req EXCEPT ![h] =
                 [ me EXCEPT !.pc = "done", !.wire = wire,
                             !.outcome = Thrown("ReauthorizationRequired", "400", "invalid_grant") ] ]
           /\ xero_connections' =
                 deleteXeroConnection(xero_connections, me.tokenInfo.connectionUserId,
                                      me.tokenInfo.tenantId)
    /\ UNCHANGED <<elsewhere, users, now, issued>>

\* refreshAccessToken: the token endpoint rejects the refresh token
RefreshRejected(h) ==
    /\ Resumes(h, "refresh")
    /\ LET me   == req[h]
           wire == Answered(me.wire, "400", "invalid_grant")
       IN  req' = [ req EXCEPT ![h] =
             [ me EXCEPT !.pc = "done", !.wire = wire,
                         !.outcome = Thrown("ReauthorizationRequired", "400", "invalid_grant") ] ]
    /\ UNCHANGED <<elsewhere, users, xero_connections, now, issued>>

\* as RefreshGranted, but the retry is sent without awaiting updateXeroTokens
RefreshGrantedRetriesAtOnce(h) ==
    /\ Resumes(h, "refresh")
    /\ issued < MaxIssued
    /\ issued' = issued + 1
    /\ LET me == req[h]
       IN  req' = [ req EXCEPT ![h] =
             [ me EXCEPT !.pc = "retry",
                         !.wire = Append(Granted(@, TokenResponse(issued + 1)),
                                         ApiRequest(me.route,
                                                    TokenResponse(issued + 1).access_token,
                                                    me.tokenInfo.tenantId)),
                         !.newTokens = TokenResponse(issued + 1) ] ]
    /\ UNCHANGED <<elsewhere, users, xero_connections, now>>

\* refreshAccessToken: the token endpoint answers with a new bundle; the handler
\* encrypts it, which takes the key, and awaits the UPDATE
RefreshGranted(h) ==
    /\ Resumes(h, "refresh")
    /\ issued < MaxIssued
    /\ issued' = issued + 1
    /\ req' = [ req EXCEPT ![h] =
         IF KeyConfigured
         THEN [ @ EXCEPT !.pc = "persist",
                         !.wire = Granted(@, TokenResponse(issued + 1)),
                         !.newTokens = TokenResponse(issued + 1) ]
         ELSE [ @ EXCEPT !.pc = "done",
                         !.wire = Granted(@, TokenResponse(issued + 1)),
                         !.newTokens = TokenResponse(issued + 1),
                         !.outcome = KeyNotConfigured ] ]
    /\ UNCHANGED <<elsewhere, users, xero_connections, now>>

\* as RefreshPersist, but the tokens are stored under the caller's userId
RefreshPersistUnderCaller(h) ==
    /\ Resumes(h, "persist")
    /\ now <= MaxClock
    /\ LET me == req[h]
       IN  /\ xero_connections' =
                 updateXeroTokens(xero_connections, me.userId,
                                  me.tokenInfo.tenantId, me.newTokens,
                                  randomBytes(now), now)
           /\ req' = [ req EXCEPT ![h] =
                 [ me EXCEPT !.pc = "retry",
                             !.wire = Append(@, ApiRequest(me.route, me.newTokens.access_token,
                                                           me.tokenInfo.tenantId)) ] ]
    /\ now' = now + 1
    /\ UNCHANGED <<elsewhere, users, issued>>

\* updateXeroTokens runs in the database; then makeRequest(newAccessToken)
RefreshPersist(h) ==
    /\ Resumes(h, "persist")
    /\ now <= MaxClock
    /\ LET me == req[h]
       IN  /\ xero_connections' =
                 updateXeroTokens(xero_connections, me.tokenInfo.connectionUserId,
                                  me.tokenInfo.tenantId, me.newTokens,
                                  randomBytes(now), now)
           /\ req' = [ req EXCEPT ![h] =
                 [ me EXCEPT !.pc = "retry",
                             !.wire = Append(@, ApiRequest(me.route, me.newTokens.access_token,
                                                           me.tokenInfo.tenantId)) ] ]
    /\ now' = now + 1
    /\ UNCHANGED <<elsewhere, users, issued>>

\* as XeroRequestRetryAnswer, but a 401 to the retry starts another refresh
XeroRequestRetryAnswerLoop(h, status) ==
    /\ Resumes(h, "retry")
    /\ LET me   == req[h]
           wire == Answered(me.wire, status, BodyOf(status))
       IN  req' = [ req EXCEPT ![h] =
             IF status = "200"
             THEN [ me EXCEPT !.pc = "done", !.wire = wire,
                              !.outcome = Returned(wire[Len(wire)].data) ]
             ELSE IF ShouldRefresh(status, me.tokenInfo)
             THEN [ me EXCEPT !.pc = "refresh",
                              !.wire = Append(wire, RefreshRequest(me.newTokens.refresh_token)) ]
             ELSE [ me EXCEPT !.pc = "done", !.wire = wire,
                              !.outcome = Thrown("UpstreamError", status, wire[Len(wire)].data) ] ]
    /\ UNCHANGED <<elsewhere, users, xero_connections, now, issued>>

\* the retry is answered (or times out): return or throw, whatever the status
XeroRequestRetryAnswer(h, status) ==
    /\ Resumes(h, "retry")
    /\ LET me   == req[h]
           wire == Answered(me.wire, status, BodyOf(status))
       IN  req' = [ req EXCEPT ![h] =
             IF status = "200"
             THEN [ me EXCEPT !.pc = "done", !.wire = wire,
                              !.outcome = Returned(wire[Len(wire)].data) ]
             ELSE [ me EXCEPT !.pc = "done", !.wire = wire,
                              !.outcome = Thrown("UpstreamError", status, wire[Len(wire)].data) ] ]
    /\ UNCHANGED <<elsewhere, users, xero_connections, now, issued>>

\* the response has been sent: the handler is free for the next request
Respond(h) ==
    /\ req[h].pc = "done"
    /\ req' = [ req EXCEPT ![h] = Idle ]
    /\ UNCHANGED <<elsewhere, users, xero_connections, now, issued>>

\* ------------------------------------------------------ Token Lifecycle: /callback
\* the organizations the connections endpoint may list
Orgs == { [ tenantId |-> t, tenantName |-> TenantName(t), createdDateUtc |-> d ] :
             t \in Tenants, d \in Dates }
ConnLists == UNION { [ 1 .. n -> Orgs ] : n \in 0 .. MaxConns }

\* Array.prototype.sort with the comparator
\* (a, b) => new Date(b.createdDateUtc) - new Date(a.createdDateUtc):
\* a stable sort, latest createdDateUtc first
RECURSIVE InsertDesc(_, _)
InsertDesc(sorted, org) ==
    IF sorted = <<>> THEN << org >>
    ELSE IF Head(sorted).createdDateUtc >= org.createdDateUtc
         THEN << Head(sorted) >> \o InsertDesc(Tail(sorted), org)
         ELSE << org >> \o sorted

RECURSIVE SortDesc(_)
SortDesc(conns) ==
    IF conns = <<>> THEN <<>>
    ELSE InsertDesc(SortDesc(SubSeq(conns, 1, Len(conns) - 1)), conns[Len(conns)])

\* as ChooseTenant, but the listing is taken in the order the provider sent it
ChooseFirstListed(conns) == conns[1]

\* "Use most recently connected tenant": conns.sort(...)[0]
ChooseTenant(conns) == SortDesc(conns)[1]

\* as StateRejected, but the state is only required to be present
StateRejectedIfAbsent(state, sessionUserId) ==
    \/ state = ""
    \/ sessionUserId = NoUser

\* the state check of /callback
StateRejected(state, sessionUserId) ==
    \/ state = ""
    \/ sessionUserId = NoUser
    \/ state # toString(sessionUserId)

\* GET /callback up to the token exchange it awaits
CallbackStart(h, sessionUserId, isAdmin, state) ==
    /\ Accepts(h)
    /\ LET me == [ Idle EXCEPT !.handler = "callback", !.userId = sessionUserId,
                               !.isAdmin = isAdmin, !.state = state ]
       IN  req' = [ req EXCEPT ![h] =
             IF StateRejected(state, sessionUserId)
             THEN [ me EXCEPT !.pc = "done",
                              !.outcome = Thrown("InvalidState", "500", "Invalid state parameter") ]
             ELSE [ me EXCEPT !.pc = "exchange", !.wire = << CodeRequest >> ] ]
    /\ UNCHANGED <<elsewhere, users, xero_connections, now, issued>>

\* as CallbackExchangeRejected, but the connections of the session's user are
\* dropped when the exchange fails
CallbackExchangeRejectedDropsRecords(h) ==
    /\ Resumes(h, "exchange")
    /\ req' = [ req EXCEPT ![h] =
         [ @ EXCEPT !.pc = "done",
                    !.wire = Answered(@, "400", "invalid_grant"),
                    !.outcome = Thrown("ExchangeError", "500", "invalid_grant") ] ]
    /\ xero_connections' = { r \in xero_connections : r.user_id # req[h].userId }
    /\ UNCHANGED <<elsewhere, users, now, issued>>

\* the token endpoint rejects the authorization code
CallbackExchangeRejected(h) ==
    /\ Resumes(h, "exchange")
    /\ req' = [ req EXCEPT ![h] =
         [ @ EXCEPT !.pc = "done",
                    !.wire = Answered(@, "400", "invalid_grant"),
                    !.outcome = Thrown("ExchangeError", "500", "invalid_grant") ] ]
    /\ UNCHANGED <<elsewhere, users, xero_connections, now, issued>>

\* the token endpoint answers with a bundle; the handler asks for the connections
CallbackExchangeGranted(h) ==
    /\ Resumes(h, "exchange")
    /\ issued < MaxIssued
    /\ issued' = issued + 1
    /\ LET tokens == TokenResponse(issued + 1)
       IN  req' = [ req EXCEPT ![h] =
             [ @ EXCEPT !.pc = "conns",
                        !.newTokens = tokens,
                        !.wire = Append(Granted(@, tokens),
                                        ConnRequest(tokens.access_token)) ] ]
    /\ UNCHANGED <<elsewhere, users, xero_connections, now>>

\* the connections endpoint fails
CallbackConnsFailed(h, status) ==
    /\ Resumes(h, "conns")
    /\ status # "200"
    /\ req' = [ req EXCEPT ![h] =
         [ @ EXCEPT !.pc = "done",
                    !.wire = Answered(@, status, BodyOf(status)),
                    !.outcome = Thrown("UpstreamError", "500", BodyOf(status)) ] ]
    /\ UNCHANGED <<elsewhere, users, xero_connections, now, issued>>

\* the connections endpoint answers: no organization, or the one to save, which
\* saveXeroConnection encrypts the tokens for before it awaits the INSERT
CallbackConnsAnswer(h, conns) ==
    /\ Resumes(h, "conns")
    /\ req' = [ req EXCEPT ![h] =
         IF Len(conns) = 0
         THEN [ @ EXCEPT !.pc = "done",
                         !.wire = Answered(@, "200", "connections"),
                         !.outcome = Thrown("NoTenantFoundError", "400",
                                            "No Xero Organizations Found") ]
         ELSE IF KeyConfigured
         THEN [ @ EXCEPT !.pc = "save",
                         !.wire = Answered(@, "200", "connections"),
                         !.chosen = ChooseTenant(conns) ]
         ELSE [ @ EXCEPT !.pc = "done",
                         !.wire = Answered(@, "200", "connections"),
                         !.chosen = ChooseTenant(conns),
                         !.outcome = KeyNotConfigured ] ]
    /\ UNCHANGED <<elsewhere, users, xero_connections, now, issued>>

\* the INSERT of saveXeroConnection runs in the database; the handler redirects.  user_id
\* REFERENCES users(id): the INSERT fails when the session's user is gone.
CallbackSave(h) ==
    /\ Resumes(h, "save")
    /\ now <= MaxClock
    /\ LET me == req[h]
       IN  IF me.userId \in users
           THEN /\ xero_connections' =
                      saveXeroConnection(xero_connections, me.userId, me.chosen.tenantId,
                                         me.chosen.tenantName, me.newTokens, me.isAdmin,
                                         randomBytes(now), now)
                /\ req' = [ req EXCEPT ![h] =
                      [ me EXCEPT !.pc = "done",
                                  !.outcome = Returned("connected") ] ]
                /\ now' = now + 1
           ELSE /\ req' = [ req EXCEPT ![h] =
                      [ me EXCEPT !.pc = "done",
                                  !.outcome = Thrown("StoreError", "500",
                                                     "violates foreign key constraint") ] ]
                /\ UNCHANGED <<xero_connections, now>>
    /\ UNCHANGED <<elsewhere, users, issued>>

\* ---------------------------------------------------- connection management
\* DELETE /api/connections/:tenantId (requireAuth)
DeleteConnection(h, userId, tenantId) ==
    /\ Accepts(h)
    /\ LET rows == deleteXeroConnection(xero_connections, userId, tenantId)
       IN  /\ xero_connections' = rows
           /\ req' = [ req EXCEPT ![h] =
                 [ Idle EXCEPT !.pc = "done", !.handler = "deleteConnection",
                               !.userId = userId,
                               !.chosen = [ NoChosen EXCEPT !.tenantId = tenantId ],
                               !.outcome = Returned(IF rows # xero_connections
                                                    THEN "success: true"
                                                    ELSE "success: false") ] ]
    /\ UNCHANGED <<elsewhere, users, now, issued>>

\* DELETE /api/admin/xero/disconnect (requireAdmin)
DisconnectSystem(h, userId) ==
    /\ Accepts(h)
    /\ LET rows == deleteSystemXeroConnection(xero_connections)
       IN  /\ xero_connections' = rows
           /\ req' = [ req EXCEPT ![h] =
                 [ Idle EXCEPT !.pc = "done", !.handler = "disconnectSystem",
                               !.userId = userId, !.isAdmin = TRUE,
                               !.outcome = Returned(IF rows # xero_connections
                                                    THEN "success: true"
                                                    ELSE "success: false") ] ]
    /\ UNCHANGED <<elsewhere, users, now, issued>>

\* DELETE FROM users WHERE id = $1; xero_connections.user_id is declared
\* REFERENCES users(id) ON DELETE CASCADE
deleteUser(ids, rows, userId) ==
    [ users |-> ids \ {userId},
      xero_connections |-> { r \in rows : r.user_id # userId },
      deleted |-> userId \in ids ]

\* DELETE /api/admin/users/:id (requireAdmin): an administrator deletes another
\* user's account
DeleteUser(h, adminId, userId) ==
    /\ Accepts(h)
    /\ adminId \in users
    /\ IF userId = adminId
       THEN /\ req' = [ req EXCEPT ![h] =
                  [ Idle EXCEPT !.pc = "done", !.handler = "deleteUser",
                                !.userId = adminId, !.isAdmin = TRUE,
                                !.outcome = Thrown("BadRequest", "400",
                                                   "You cannot delete your own account") ] ]
            /\ UNCHANGED <<users, xero_connections>>
       ELSE LET after == deleteUser(users, xero_connections, userId)
            IN  /\ users' = after.users
                /\ xero_connections' = after.xero_connections
                /\ req' = [ req EXCEPT ![h] =
                      [ Idle EXCEPT !.pc = "done", !.handler = "deleteUser",
                                    !.userId = adminId, !.isAdmin = TRUE,
                                    !.outcome = Returned(IF after.deleted
                                                         THEN "success: true"
                                                         ELSE "success: false") ] ]
    /\ UNCHANGED <<elsewhere, now, issued>>

\* ------------------------------------------------------------ authorization
\* GET /auth/xero (requireAuth): the browser of a signed-in user is sent to the
\* provider, the user's id as state; nothing about it is kept on the server
AuthRedirect(h, sessionUserId) ==
    /\ Accepts(h)
    /\ IF sessionUserId = NoUser
       THEN /\ req' = [ req EXCEPT ![h] =
                  [ Idle EXCEPT !.pc = "done", !.handler = "authXero",
                                !.outcome = Thrown("Unauthorized", "401",
                                                   "Authentication required") ] ]
            /\ UNCHANGED redirected
       ELSE /\ req' = [ req EXCEPT ![h] =
                  [ Idle EXCEPT !.pc = "done", !.handler = "authXero",
                                !.userId = sessionUserId,
                                !.isAdmin = is_admin(sessionUserId),
                                !.state = toString(sessionUserId),
                                !.outcome = Returned("redirect to XERO_AUTH") ] ]
            /\ redirected' = redirected \cup {sessionUserId}
    /\ UNCHANGED <<env, users, xero_connections, xero_instances, now, issued, saving>>

\* ---------------------------------------------- the deployment of the server
\* the process is started again, with the configuration it then finds; the
\* requests in flight are lost
Restart(key) ==
    /\ key # env.PRODIT_TOKEN_KEY
    /\ env' = [ env EXCEPT !.PRODIT_TOKEN_KEY = key ]
    /\ req' = [ h \in Handlers |-> Idle ]
    /\ UNCHANGED <<redirected, users, xero_connections, xero_instances, now, issued, saving>>

\* the columns encryptTokens fills
Sealed == {"encrypted_tokens", "encryption_iv", "encryption_tag"}

\* a stored text with a bit of its bytes flipped
Flipped(text) ==
    << "base64", [ text[2] EXCEPT ![Len(text[2])] = TRUE ], text[3] >>

\* a stored text written another way: white space added, padding removed, or a
\* bit flipped that belongs to no byte
Reencoded(text) == << "base64", text[2], "not canonical" >>

\* a stored tag cut to its first bytes
Shortened(text) == << "base64", Truncated(text[2]), text[3] >>

\* the triple of a row is one encryptTokens has returned, whatever the key
AsSealed(row) ==
    LET ciphertext == fromBase64(row.encrypted_tokens)
    IN  /\ ~ciphertext[5]
        /\ row.encrypted_tokens = toBase64(ciphertext)
        /\ row.encryption_iv    = toBase64(ciphertext[3])
        /\ row.encryption_tag   = toBase64(getAuthTag(ciphertext[2], ciphertext[3], ciphertext))

\* the triple of a row is the one the program wrote to it: the iv is the draw of
\* the statement that stamped last_synced
Untouched(row) ==
    /\ AsSealed(row)
    /\ row.encryption_iv = toBase64(randomBytes(row.last_synced))

\* how a writer to the table other than the program may change a stored text
Tampers == {"flip", "reencode", "shorten", "transplant"}

\* the texts a column of a row may be given in place of the text encryptTokens
\* wrote: that text with a bit of its bytes flipped, written another way, cut
\* short (a tag), or the text of the same column of another row
TamperedTexts(rows, row, column, how) ==
    IF how = "flip" THEN { Flipped(row[column]) }
    ELSE IF how = "reencode" THEN { Reencoded(row[column]) }
    ELSE IF how = "shorten"
    THEN (IF column = "encryption_tag" THEN { Shortened(row[column]) } ELSE {})
    ELSE { q[column] : q \in rows } \ { row[column] }

\* a column of the row of (userId, tenantId) is changed behind the program's
\* back; one change at a time: the rows are as the program wrote them before
Tamper(userId, tenantId, column, how) ==
    /\ \A r \in xero_connections : Untouched(r)
    /\ \E row \in { r \in xero_connections : r.user_id = userId /\ r.tenant_id = tenantId } :
         \E text \in TamperedTexts(xero_connections, row, column, how) :
            xero_connections' =
                (xero_connections \ {row}) \cup { [ row EXCEPT ![column] = text ] }
    /\ UNCHANGED <<env, redirected, users, xero_instances, now, issued, req, saving>>

\* the triple of the row of (userId, tenantId) is replaced by the triple of
\* another row, as a whole
Replace(userId, tenantId) ==
    /\ \A r \in xero_connections : Untouched(r)
    /\ \E row \in { r \in xero_connections : r.user_id = userId /\ r.tenant_id = tenantId } :
         \E q \in xero_connections \ {row} :
            /\ q.encrypted_tokens # row.encrypted_tokens
            /\ xero_connections' =
                 (xero_connections \ {row})
                    \cup { [ row EXCEPT !.encrypted_tokens = q.encrypted_tokens,
                                        !.encryption_iv    = q.encryption_iv,
                                        !.encryption_tag   = q.encryption_tag ] }
    /\ UNCHANGED <<env, redirected, users, xero_instances, now, issued, req, saving>>

\* ------------------------------------------------------------ xero_instances
\* A row of xero_instances has the columns id, organization_id, xero_tenant_id
\* (UNIQUE), xero_tenant_name, connection_status and the sealed triple; the
\* timestamp columns are left out, nothing modelled here reads them.
Callers == {1, 2}
Organizations == {1, 2}
NoRow == "undefined"

\* a caller of saveXeroInstance that has not called, or has been answered
NotCalled ==
    [ pc |-> "idle", organizationId |-> 0, tenantId |-> "", tenantName |-> "",
      sealed |-> <<>>, existing |-> {}, result |-> NoRow ]

UniqueViolation ==
    [ error |-> "duplicate key value violates unique constraint xero_instances_xero_tenant_id_key" ]

InstanceIds == 1..Cardinality(Tenants)

\* SELECT id FROM xero_instances WHERE organization_id = $1 AND xero_tenant_id = $2
SelectInstance(rows, organizationId, tenantId) ==
    { r \in rows : r.organization_id = organizationId /\ r.xero_tenant_id = tenantId }

\* the UPDATE branch of saveXeroInstance
UpdateInstance(rows, a) ==
    { IF r \in SelectInstance(rows, a.organizationId, a.tenantId)
      THEN [ r EXCEPT !.xero_tenant_name  = a.tenantName,
                      !.encrypted_tokens  = a.sealed.encrypted,
                      !.encryption_iv     = a.sealed.iv,
                      !.encryption_tag    = a.sealed.tag,
                      !.connection_status = "connected" ]
      ELSE r : r \in rows }

\* the row the INSERT branch of saveXeroInstance writes; connection_status takes
\* its default
InsertedInstance(rows, a) ==
    [ id                |-> Cardinality(rows) + 1,
      organization_id   |-> a.organizationId,
      xero_tenant_id    |-> a.tenantId,
      xero_tenant_name  |-> a.tenantName,
      encrypted_tokens  |-> a.sealed.encrypted,
      encryption_iv     |-> a.sealed.iv,
      encryption_tag    |-> a.sealed.tag,
      connection_status |-> "connected" ]

\* saveXeroInstance, up to the answer of its SELECT
SaveXeroInstanceSelect(c, organizationId, tenantId, n) ==
    /\ saving[c].pc = "idle"
    /\ saving' = [ saving EXCEPT ![c] =
         [ pc             |-> "selected",
           organizationId |-> organizationId,
           tenantId       |-> tenantId,
           tenantName     |-> TenantName(tenantId),
           sealed         |-> encryptTokens(TokenResponse(n), randomBytes(n)),
           existing       |-> { r.id : r \in SelectInstance(xero_instances,
                                                            organizationId, tenantId) },
           result         |-> NoRow ] ]
    /\ UNCHANGED <<env, redirected, users, xero_connections, xero_instances, now,
                   issued, req>>

\* saveXeroInstance, existing.rows.length > 0: the UPDATE and its RETURNING row
SaveXeroInstanceUpdate(c) ==
    /\ saving[c].pc = "selected"
    /\ saving[c].existing # {}
    /\ xero_instances' = UpdateInstance(xero_instances, saving[c])
    /\ LET written == SelectInstance(xero_instances', saving[c].organizationId,
                                     saving[c].tenantId)
       IN  saving' = [ saving EXCEPT ![c] =
             [ @ EXCEPT !.pc = "done",
                        !.result = IF written = {} THEN NoRow
                                   ELSE CHOOSE r \in written : TRUE ] ]
    /\ UNCHANGED <<env, redirected, users, xero_connections, now, issued, req>>

\* saveXeroInstance, no row selected: the INSERT; the database refuses a second
\* row of one xero_tenant_id and the error leaves the function
SaveXeroInstanceInsert(c) ==
    /\ saving[c].pc = "selected"
    /\ saving[c].existing = {}
    /\ IF \E r \in xero_instances : r.xero_tenant_id = saving[c].tenantId
       THEN /\ saving' = [ saving EXCEPT ![c] =
                  [ @ EXCEPT !.pc = "done", !.result = UniqueViolation ] ]
            /\ UNCHANGED xero_instances
       ELSE /\ xero_instances' =
                  xero_instances \cup {InsertedInstance(xero_instances, saving[c])}
            /\ saving' = [ saving EXCEPT ![c] =
                  [ @ EXCEPT !.pc = "done",
                             !.result = InsertedInstance(xero_instances, saving[c]) ] ]
    /\ UNCHANGED <<env, redirected, users, xero_connections, now, issued, req>>

\* the caller of saveXeroInstance has its row, or the error
SaveXeroInstanceReturn(c) ==
    /\ saving[c].pc = "done"
    /\ saving' = [ saving EXCEPT ![c] = NotCalled ]
    /\ UNCHANGED <<env, redirected, users, xero_connections, xero_instances, now,
                   issued, req>>

\* disconnectXeroInstance(xeroInstanceId)
DisconnectXeroInstance(xeroInstanceId) ==
    /\ \E r \in xero_instances : r.id = xeroInstanceId
    /\ xero_instances' =
         { IF r.id = xeroInstanceId
           THEN [ r EXCEPT !.connection_status = "disconnected" ]
           ELSE r : r \in xero_instances }
    /\ UNCHANGED <<env, redirected, users, xero_connections, now, issued, req, saving>>

\* ------------------------------------------------------------ specification
Init ==
    /\ env = [ PRODIT_TOKEN_KEY |-> Key ]
    /\ redirected = {}
    /\ xero_instances = {}
    /\ saving = [ c \in Callers |-> NotCalled ]
    /\ users = Users
    /\ xero_connections = {}
    /\ now = 1
    /\ issued = 0
    /\ req = [ h \in Handlers |-> Idle ]

\* what handler h may do next, the start of a call to the provider apart
StepButCall(h) ==
        \/ \E status \in Statuses \cup {Timeout} : XeroRequestFirstAnswer(h, status)
        \/ RefreshRejected(h)
        \/ RefreshGranted(h)
        \/ RefreshPersist(h)
        \/ \E status \in Statuses \cup {Timeout} : XeroRequestRetryAnswer(h, status)
        \/ \E u \in Users \cup {NoUser}, state \in StateParams :
              CallbackStart(h, u, is_admin(u), state)
        \/ CallbackExchangeRejected(h)
        \/ CallbackExchangeGranted(h)
        \/ \E status \in Statuses \cup {Timeout} : CallbackConnsFailed(h, status)
        \/ \E conns \in ConnLists : CallbackConnsAnswer(h, conns)
        \/ CallbackSave(h)
        \/ \E u \in Users, t \in Tenants : DeleteConnection(h, u, t)
        \/ \E u \in { a \in Users : is_admin(a) } : DisconnectSystem(h, u)
        \/ Respond(h)

\* what handler h may do next
Step(h) ==
        \/ \E u \in Users, route \in Routes :
              XeroRequestStart(h, u, is_admin(u), route)
        \/ StepButCall(h)

\* requests of different clients interleave at their awaits
Next == \E h \in Handlers : Step(h)

Spec == Init /\ [][Next]_vars

\* one request at a time: each is answered before the next arrives
NextSeq == Step(1)

SpecSeq == Init /\ [][NextSeq]_vars

\* the token lifecycle together with the administration of user accounts
StepAdmin(h) ==
        \/ Step(h)
        \/ \E a \in { a \in Users : is_admin(a) }, u \in Users : DeleteUser(h, a, u)

NextAdmin == \E h \in Handlers : StepAdmin(h)

SpecAdmin == Init /\ [][NextAdmin]_vars

\* what handler h may do next when every user calls and the administrators
\* connect and disconnect
StepCipher(h) ==
        \/ \E u \in Users, route \in Routes :
              XeroRequestStart(h, u, is_admin(u), route)
        \/ \E status \in Statuses \cup {Timeout} : XeroRequestFirstAnswer(h, status)
        \/ RefreshRejected(h)
        \/ RefreshGranted(h)
        \/ RefreshPersist(h)
        \/ \E status \in Statuses \cup {Timeout} : XeroRequestRetryAnswer(h, status)
        \/ \E a \in { a \in Users : is_admin(a) }, state \in StateParams :
              CallbackStart(h, a, TRUE, state)
        \/ CallbackExchangeRejected(h)
        \/ CallbackExchangeGranted(h)
        \/ \E status \in Statuses \cup {Timeout} : CallbackConnsFailed(h, status)
        \/ \E conns \in ConnLists : CallbackConnsAnswer(h, conns)
        \/ CallbackSave(h)
        \/ \E a \in { a \in Users : is_admin(a) }, t \in Tenants : DeleteConnection(h, a, t)
        \/ \E a \in { a \in Users : is_admin(a) } : DisconnectSystem(h, a)
        \/ Respond(h)

\* the server behind one client, and what its deployment may do to it: restarts
\* with another configuration, writes to the table that are not the program's
NextCipher ==
    \/ StepCipher(1)
    \/ \E key \in KeyConfigs : Restart(key)
    \/ \E u \in Users, t \in Tenants, column \in Sealed, how \in Tampers :
          Tamper(u, t, column, how)
    \/ \E u \in Users, t \in Tenants : Replace(u, t)

SpecCipher == Init /\ [][NextCipher]_vars

\* the server behind one client that may also ask to be sent to the provider
NextAuth ==
    \/ Step(1)
    \/ \E u \in Users \cup {NoUser} : AuthRedirect(1, u)

SpecAuth == Init /\ [][NextAuth]_vars

\* the store as two callbacks left it before the behaviour starts: user 2
\* connected t1 first, then administrator 1 did, which made the system connection
Connected ==
    saveXeroConnection(
        saveXeroConnection({}, 2, "t1", TenantName("t1"), TokenResponse(-1), FALSE,
                           randomBytes(-1), -1),
        1, "t1", TenantName("t1"), TokenResponse(0), TRUE, randomBytes(0), 0)

InitConnected ==
    /\ env = [ PRODIT_TOKEN_KEY |-> Key ]
    /\ redirected = {}
    /\ xero_instances = {}
    /\ saving = [ c \in Callers |-> NotCalled ]
    /\ users = Users
    /\ xero_connections = Connected
    /\ now = 1
    /\ issued = 0
    /\ req = [ h \in Handlers |-> Idle ]

\* what handler h may do next when the clients only call
StepCall(h) ==
        \/ \E u \in Users, route \in Routes :
              XeroRequestStart(h, u, is_admin(u), route)
        \/ \E status \in Statuses \cup {Timeout} : XeroRequestFirstAnswer(h, status)
        \/ RefreshRejected(h)
        \/ RefreshGranted(h)
        \/ RefreshPersist(h)
        \/ \E status \in Statuses \cup {Timeout} : XeroRequestRetryAnswer(h, status)
        \/ Respond(h)

\* concurrent calls on a store that holds a connection, nothing else going on
NextCalls == \E h \in Handlers : StepCall(h)

SpecCalls == InitConnected /\ [][NextCalls]_vars

\* the refresh token a call reads from the store has not been exchanged yet: no
\* other call holds a bundle granted for it that it has still to persist
ReadsUnusedRefreshToken(h) ==
    (req[h].pc = "idle" /\ req'[h].handler = "xeroRequest")
        => \A g \in Handlers :
              ~(/\ req[g].handler = "xeroRequest"
                /\ req[g].pc = "persist"
                /\ req[g].tokenInfo.refreshToken = req'[h].tokenInfo.refreshToken)

XeroRequestStartUnused(h, userId, isAdmin, route) ==
    /\ XeroRequestStart(h, userId, isAdmin, route)
    /\ ReadsUnusedRefreshToken(h)

\* concurrent calls that all start while the stored refresh token is still valid
StepRace(h) ==
        \/ \E u \in Users, route \in Routes :
              XeroRequestStartUnused(h, u, is_admin(u), route)
        \/ StepButCall(h)

NextRace == \E h \in Handlers : StepRace(h)

SpecRace == Init /\ [][NextRace]_vars

\* ===================================================================== claims
IsApi(e)     == e.url = "XERO_API"
IsRefresh(e) == e.url = "XERO_TOKEN" /\ e.urlPath = "refresh_token"
ApiSent(h)     == SelectSeq(req[h].wire, IsApi)
RefreshSent(h) == SelectSeq(req[h].wire, IsRefresh)
Calls == { h \in Handlers : req[h].handler = "xeroRequest" }

\* C1: one xeroRequest sends at most one refresh exchange and at most two proxied
\* requests; 401 then 200 returns after exactly one refresh; 401 then 401 throws
\* that second 401 after exactly one refresh, and nothing more is sent.
C1_ExactlyOneRetry ==
    \A h \in Calls :
        LET api == ApiSent(h)
            me  == req[h]
        IN  /\ Len(RefreshSent(h)) <= 1
            /\ Len(api) <= 2
            /\ (Len(api) = 2 /\ api[1].status = "401" /\ api[2].status = "200")
                  => /\ me.pc = "done"
                     /\ me.outcome.kind = "returned"
                     /\ Len(RefreshSent(h)) = 1
            /\ (Len(api) = 2 /\ api[1].status = "401" /\ api[2].status = "401")
                  => /\ me.pc = "done"
                     /\ me.outcome = Thrown("UpstreamError", "401", api[2].data)
                     /\ Len(RefreshSent(h)) = 1
                     /\ Len(me.wire) = 3

\* a call whose first attempt and whose retry were both answered 401
C1_Witness ==
    \E h \in Calls :
        /\ req[h].pc = "done"
        /\ Len(ApiSent(h)) = 2
        /\ ApiSent(h)[1].status = "401"
        /\ ApiSent(h)[2].status = "401"
        /\ Len(RefreshSent(h)) = 1

\* C2: a refresh exchange is sent only in answer to a 401 to the first attempt;
\* when the first attempt is answered 200, answered with another failure status or
\* times out, the call ends in that step with that result or error, nothing more
\* is sent, and xero_connections is unchanged.
C2_FirstAnswered(h) ==
    /\ req[h].handler = "xeroRequest"
    /\ req[h].pc = "first"
    /\ req'[h] # req[h]

C2_OnlyA401Refreshes ==
    [][ \A h \in Handlers :
          /\ (h \in Calls /\ Len(RefreshSent(h)') > Len(RefreshSent(h)))
                => (req[h].pc = "first" /\ req'[h].wire[1].status = "401")
          /\ (C2_FirstAnswered(h) /\ req'[h].wire[1].status # "401")
                => /\ req'[h].pc = "done"
                   /\ Len(req'[h].wire) = 1
                   /\ xero_connections' = xero_connections
                   /\ req'[h].outcome =
                        IF req'[h].wire[1].status = "200"
                        THEN Returned(req'[h].wire[1].data)
                        ELSE Thrown("UpstreamError", req'[h].wire[1].status,
                                    req'[h].wire[1].data)
      ]_vars

\* a call ended by a 500 to its first attempt, with a connection in the store
C2_Witness ==
    \E h \in Calls :
        /\ req[h].pc = "done"
        /\ Len(req[h].wire) = 1
        /\ req[h].wire[1].status = "500"
        /\ req[h].outcome.kind = "UpstreamError"
        /\ xero_connections # {}

\* the rows stored under a key, and the bundle a row holds
RowsOf(rows, userId, tenantId) ==
    { r \in rows : r.user_id = userId /\ r.tenant_id = tenantId }
BundleOf(r) ==
    CHOOSE tokens \in decryptTokens(r.encrypted_tokens, r.encryption_iv, r.encryption_tag) : TRUE

\* a finished call: first attempt 401, refresh granted, retry 200
C3_RefreshedAndRetried(h) ==
    /\ req[h].handler = "xeroRequest"
    /\ req[h].pc = "done"
    /\ Len(req[h].wire) = 3
    /\ req[h].wire[1].status = "401"
    /\ IsRefresh(req[h].wire[2]) /\ req[h].wire[2].status = "200"
    /\ IsApi(req[h].wire[3]) /\ req[h].wire[3].status = "200"

\* C3: with one request handled at a time, a call whose first attempt is answered
\* 401, whose refresh is granted and whose retry is answered 200 returns the body
\* of that 200, and the row it used then holds the bundle the token endpoint
\* granted (both tokens new) with a last_synced later than the one it read.
C3_StaleTokenRefreshed ==
    \A h \in Handlers :
        C3_RefreshedAndRetried(h) =>
            LET me      == req[h]
                granted == me.wire[2].tokens
                rows    == RowsOf(xero_connections, me.tokenInfo.connectionUserId,
                                  me.tokenInfo.tenantId)
            IN  /\ me.outcome = Returned(me.wire[3].data)
                /\ granted.access_token \notin {Undefined, me.tokenInfo.accessToken}
                /\ granted.refresh_token \notin {Undefined, me.tokenInfo.refreshToken}
                /\ rows # {}
                /\ \A r \in rows : /\ BundleOf(r) = granted
                                   /\ r.last_synced > me.lastSynced

C3_Witness == \E h \in Handlers : C3_RefreshedAndRetried(h)

\* C4: when the token endpoint rejects the refresh, the call ends in that step with
\* ReauthorizationRequired, the proxied request is not sent again, and no step of a
\* call other than the persist of a granted refresh changes any row.
C4_RefreshRejectedLeavesRecord ==
    [][ \A h \in Handlers :
          /\ (req'[h].handler = "xeroRequest" /\ req'[h] # req[h] /\ req[h].pc # "persist")
                => xero_connections' = xero_connections
          /\ (h \in Calls /\ req[h].pc = "refresh" /\ req'[h] # req[h]
                /\ req'[h].wire[2].status # "200")
                => /\ req'[h].pc = "done"
                   /\ req'[h].outcome.kind = "ReauthorizationRequired"
                   /\ Len(SelectSeq(req'[h].wire, IsApi)) = 1
                   /\ xero_connections' = xero_connections
      ]_vars

\* a call ended by a rejected refresh while the row it read is still stored
C4_Witness ==
    \E h \in Calls :
        /\ req[h].pc = "done"
        /\ req[h].outcome.kind = "ReauthorizationRequired"
        /\ Len(req[h].wire) = 2
        /\ \E r \in RowsOf(xero_connections, req[h].tokenInfo.connectionUserId,
                           req[h].tokenInfo.tenantId) :
              /\ BundleOf(r).refresh_token = req[h].tokenInfo.refreshToken
              /\ r.last_synced = req[h].lastSynced

\* C5: the retry is on the wire only after a granted refresh, in a step after which
\* the row the call used (if still stored) holds the granted bundle; it carries the
\* granted access token and the method, path and tenant of the first attempt.
C5_RetrySent(h) ==
    /\ req'[h].handler = "xeroRequest"
    /\ Len(SelectSeq(req'[h].wire, IsApi)) = 2
    /\ Len(SelectSeq(req[h].wire, IsApi)) < 2

C5_RefreshPrecedesRetry ==
    [][ \A h \in Handlers :
          C5_RetrySent(h) =>
            LET me    == req'[h]
                first == me.wire[1]
                retry == me.wire[Len(me.wire)]
            IN  /\ Len(me.wire) = 3
                /\ IsRefresh(me.wire[2])
                /\ me.wire[2].status = "200"
                /\ me.wire[2].grant = me.tokenInfo.refreshToken
                /\ retry.bearer = me.wire[2].tokens.access_token
                /\ retry.bearer # first.bearer
                /\ retry.method = first.method
                /\ retry.urlPath = first.urlPath
                /\ retry.config = first.config
                /\ retry.tenant = first.tenant
                /\ \A r \in RowsOf(xero_connections, me.tokenInfo.connectionUserId,
                                   me.tokenInfo.tenantId) :
                      \E q \in RowsOf(xero_connections', me.tokenInfo.connectionUserId,
                                      me.tokenInfo.tenantId) :
                          BundleOf(q) = me.wire[2].tokens
      ]_vars

\* a POST whose retry is on the wire, the row holding the granted bundle
C5_Witness ==
    \E h \in Calls :
        /\ req[h].pc = "retry"
        /\ req[h].route.method = "post"
        /\ \E r \in xero_connections : BundleOf(r) = req[h].newTokens

\* C6: a privileged caller is served from the most recently synced row whose
\* user_id is its own; an unprivileged caller from the most recently synced row
\* flagged is_system_connection, whoever owns it.
C6_Eligible(rows, userId, isAdmin) ==
    IF isAdmin THEN { r \in rows : r.user_id = userId }
               ELSE { r \in rows : r.is_system_connection }

C6_ResolutionRule ==
    [][ \A h \in Handlers :
          (req[h].pc = "idle" /\ req'[h].handler = "xeroRequest" /\ req'[h].pc # "done") =>
            LET me       == req'[h]
                eligible == C6_Eligible(xero_connections, me.userId, me.isAdmin)
            IN  /\ \E r \in eligible :
                      /\ r.user_id = me.tokenInfo.connectionUserId
                      /\ r.tenant_id = me.tokenInfo.tenantId
                      /\ BundleOf(r).access_token = me.tokenInfo.accessToken
                      /\ BundleOf(r).refresh_token = me.tokenInfo.refreshToken
                      /\ \A q \in eligible : q.last_synced <= r.last_synced
                /\ me.isAdmin => me.tokenInfo.connectionUserId = me.userId
                /\ me.wire[1].bearer = me.tokenInfo.accessToken
                /\ me.wire[1].tenant = me.tokenInfo.tenantId
      ]_vars

\* an unprivileged caller with a row of its own, synced later than the system row,
\* is served from the system row of another user
C6_Witness ==
    \E h \in Calls :
        /\ req[h].pc = "first"
        /\ ~req[h].isAdmin
        /\ req[h].tokenInfo.connectionUserId # req[h].userId
        /\ \E own \in xero_connections :
              /\ own.user_id = req[h].userId
              /\ ~own.is_system_connection
              /\ own.last_synced > req[h].lastSynced

\* C7: when no row is eligible by the resolution rule, the call ends at once with
\* NoConnectionError: nothing is sent to the provider and no row changes.
C7_NoConnection ==
    [][ \A h \in Handlers :
          (req[h].pc = "idle" /\ req'[h].handler = "xeroRequest") =>
            LET me == req'[h]
            IN  /\ (C6_Eligible(xero_connections, me.userId, me.isAdmin) = {})
                      <=> (me.pc = "done" /\ me.outcome.kind = "NoConnectionError")
                /\ (me.outcome.kind = "NoConnectionError")
                      => (me.wire = <<>> /\ xero_connections' = xero_connections)
      ]_vars

\* an unprivileged caller that has a row of its own, but no system row to use
C7_Witness ==
    \E h \in Calls :
        /\ req[h].pc = "done"
        /\ req[h].outcome.kind = "NoConnectionError"
        /\ ~req[h].isAdmin
        /\ \E r \in xero_connections : r.user_id = req[h].userId

\* C8: the persist of a refresh made for a caller who does not own the row used
\* writes the granted bundle to the row of (connectionUserId, tenantId): no row of
\* the caller is created or changed, and no other row either.
C8_Persists(h) ==
    /\ req[h].handler = "xeroRequest"
    /\ req[h].pc = "persist"
    /\ req'[h] # req[h]
    /\ req[h].userId # req[h].tokenInfo.connectionUserId

C8_PersistUnderOwner ==
    [][ \A h \in Handlers :
          C8_Persists(h) =>
            LET me    == req[h]
                owner == me.tokenInfo.connectionUserId
                t     == me.tokenInfo.tenantId
            IN  /\ { r \in xero_connections' : r.user_id = me.userId }
                      = { r \in xero_connections : r.user_id = me.userId }
                /\ \A r \in RowsOf(xero_connections, owner, t) :
                      \E q \in RowsOf(xero_connections', owner, t) :
                          BundleOf(q) = me.newTokens
                /\ xero_connections' \ RowsOf(xero_connections', owner, t)
                      = xero_connections \ RowsOf(xero_connections, owner, t)
                /\ RowsOf(xero_connections, owner, t) = {}
                      => RowsOf(xero_connections', owner, t) = {}
      ]_vars

\* an unprivileged caller's refresh has been persisted to the row of its owner
C8_Witness ==
    \E h \in Calls :
        /\ req[h].pc = "retry"
        /\ req[h].userId # req[h].tokenInfo.connectionUserId
        /\ \E r \in RowsOf(xero_connections, req[h].tokenInfo.connectionUserId,
                           req[h].tokenInfo.tenantId) :
              BundleOf(r) = req[h].newTokens

\* C9: the table never holds two rows with the same (user_id, tenant_id), and the
\* list of a user's connections never shows a tenant twice; a save on a key leaves
\* exactly one row with that key, holding the bundle saved last.
C9_Listed(userId) == getAllXeroConnections(xero_connections, userId)

C9_OneRowPerKey ==
    /\ [](/\ \A r, q \in xero_connections :
                (r.user_id = q.user_id /\ r.tenant_id = q.tenant_id) => r = q
          /\ \A u \in Users : \A r, q \in DOMAIN C9_Listed(u) :
                C9_Listed(u)[r].tenant_id = C9_Listed(u)[q].tenant_id => r = q)
    /\ [][ \A h \in Handlers :
             (req[h].handler = "callback" /\ req[h].pc = "save" /\ req'[h].pc = "done") =>
                \E r \in xero_connections' :
                    /\ RowsOf(xero_connections', req[h].userId, req[h].chosen.tenantId) = {r}
                    /\ BundleOf(r) = req[h].newTokens
                    /\ Cardinality(xero_connections')
                         = Cardinality(xero_connections
                              \ RowsOf(xero_connections, req[h].userId,
                                       req[h].chosen.tenantId)) + 1
         ]_vars

\* the second save on a key: the row was created by an earlier save, and is the
\* only one of its key, holding the second bundle
C9_Witness ==
    \E h \in Handlers :
        /\ req[h].handler = "callback"
        /\ req[h].pc = "done"
        /\ req[h].newTokens = TokenResponse(2)
        /\ \E r \in xero_connections :
              /\ RowsOf(xero_connections, req[h].userId, req[h].chosen.tenantId) = {r}
              /\ r.created_at < r.last_synced
              /\ BundleOf(r) = TokenResponse(2)

\* C10: a callback without a session, without a state, or with a state that is
\* not the session's user id written in decimal is rejected with nothing sent to
\* the provider and no row changed.
C10_StateOf(userId) == IF userId = 1 THEN "1" ELSE IF userId = 2 THEN "2" ELSE "none"

C10_Unbound(state, userId) ==
    userId \notin Users \/ state = "" \/ state # C10_StateOf(userId)

C10_CallbackStateBinding ==
    [][ \A h \in Handlers :
          (req[h].pc = "idle" /\ req'[h].handler = "callback") =>
            LET me == req'[h]
            IN  /\ C10_Unbound(me.state, me.userId)
                      => /\ me.pc = "done"
                         /\ me.outcome.kind = "InvalidState"
                         /\ me.wire = <<>>
                         /\ xero_connections' = xero_connections
                         /\ issued' = issued
                /\ me.wire # <<>> => me.state = C10_StateOf(me.userId)
      ]_vars

\* a callback that presents the identity of another user as its state is rejected
C10_Witness ==
    \E h \in Handlers :
        /\ req[h].handler = "callback"
        /\ req[h].pc = "done"
        /\ req[h].outcome.kind = "InvalidState"
        /\ req[h].userId = 1
        /\ req[h].state = "2"
        /\ req[h].wire = <<>>

\* C11 (as amended): a row appears only in the save of a callback whose exchange
\* and tenant listing succeeded, under that callback's user and tenant; a row
\* disappears only in a delete by its owner, in the system disconnect of an
\* administrator, or with its owner's account when an administrator deletes it.
\* Calls, refreshes, failed callbacks and answers of the provider add and remove
\* nothing.
KeysOf(rows) == { <<r.user_id, r.tenant_id>> : r \in rows }

C11_Added   == KeysOf(xero_connections') \ KeysOf(xero_connections)
C11_Removed == { r \in xero_connections :
                    <<r.user_id, r.tenant_id>> \notin KeysOf(xero_connections') }

C11_AddedBySave(h) ==
    /\ req[h].handler = "callback"
    /\ req[h].pc = "save"
    /\ req'[h].outcome = Returned("connected")
    /\ req[h].wire[1].status = "200"
    /\ req[h].wire[2].status = "200"
    /\ C11_Added \subseteq { <<req[h].userId, req[h].chosen.tenantId>> }

C11_RemovedByOwner(h) ==
    /\ req[h].pc = "idle"
    /\ req'[h].handler = "deleteConnection"
    /\ \A r \in C11_Removed :
          r.user_id = req'[h].userId /\ r.tenant_id = req'[h].chosen.tenantId

C11_RemovedByDisconnect(h) ==
    /\ req[h].pc = "idle"
    /\ req'[h].handler = "disconnectSystem"
    /\ is_admin(req'[h].userId)
    /\ \A r \in C11_Removed : r.is_system_connection

C11_RemovedWithAccount(h) ==
    /\ req[h].pc = "idle"
    /\ req'[h].handler = "deleteUser"
    /\ is_admin(req'[h].userId)
    /\ \A r \in C11_Removed : r.user_id \in users /\ r.user_id \notin users'

C11_RecordLifecycle ==
    [][ /\ C11_Added # {} => \E h \in Handlers : C11_AddedBySave(h)
        /\ C11_Removed # {} => \E h \in Handlers :
                                  \/ C11_RemovedByOwner(h)
                                  \/ C11_RemovedByDisconnect(h)
                                  \/ C11_RemovedWithAccount(h)
      ]_vars

\* C11 (as claimed): a row disappears only in a delete by its owner or in the
\* system disconnect of an administrator.
C11_OnlyExplicitDelete ==
    [][ /\ C11_Added # {} => \E h \in Handlers : C11_AddedBySave(h)
        /\ C11_Removed # {} => \E h \in Handlers :
                                  \/ C11_RemovedByOwner(h)
                                  \/ C11_RemovedByDisconnect(h)
      ]_vars

\* a callback has just failed at the exchange, after a refresh or a reconnection
\* rewrote the one row a callback had created: that row is still the only one
C11_Witness ==
    /\ \E h \in Handlers :
          /\ req[h].handler = "callback"
          /\ req[h].pc = "done"
          /\ req[h].outcome.kind = "ExchangeError"
    /\ \E r \in xero_connections :
          /\ xero_connections = {r}
          /\ r.created_at < r.last_synced
          /\ BundleOf(r) = TokenResponse(2)

\* C12: the first attempt of a call carries the access token the row it resolved
\* to holds in the store at that moment; when another call has persisted a refresh of
\* that row and the row still holds it, the first attempt carries the refreshed
\* access token, not the one that other call started with.
C12_Starts(h) ==
    /\ req[h].pc = "idle"
    /\ req'[h].handler = "xeroRequest"
    /\ req'[h].pc = "first"

C12_Refreshed(g, userId, tenantId) ==
    /\ req[g].handler = "xeroRequest"
    /\ req[g].pc = "retry"
    /\ req[g].tokenInfo.connectionUserId = userId
    /\ req[g].tokenInfo.tenantId = tenantId
    /\ \E r \in RowsOf(xero_connections, userId, tenantId) : BundleOf(r) = req[g].newTokens

C12_NoBundleCarriedOver ==
    [][ \A h \in Handlers :
          C12_Starts(h) =>
            LET me == req'[h]
            IN  /\ \E r \in RowsOf(xero_connections, me.tokenInfo.connectionUserId,
                                   me.tokenInfo.tenantId) :
                      /\ BundleOf(r).access_token = me.wire[1].bearer
                      /\ BundleOf(r).refresh_token = me.tokenInfo.refreshToken
                /\ \A g \in Handlers \ {h} :
                      C12_Refreshed(g, me.tokenInfo.connectionUserId, me.tokenInfo.tenantId)
                         => /\ me.wire[1].bearer = req[g].newTokens.access_token
                            /\ me.wire[1].bearer # req[g].wire[1].bearer
      ]_vars

\* a call started after another call's refresh was persisted: its first attempt
\* carries the refreshed access token while the other call still awaits its retry
C12_Witness ==
    \E h, g \in Calls :
        /\ h # g
        /\ req[h].pc = "first"
        /\ req[g].pc = "retry"
        /\ req[h].userId = req[g].userId
        /\ req[h].wire[1].bearer = req[g].newTokens.access_token
        /\ req[g].wire[1].bearer # req[h].wire[1].bearer

\* C13: of the calls that run concurrently on one row, started while its refresh
\* token was valid and answered 401, none ends with its refresh rejected after
\* another of them had the same refresh token exchanged.
C13_AllConcurrentCallsSucceed ==
    \A h, g \in Calls :
        (/\ h # g
         /\ req[g].tokenInfo = req[h].tokenInfo
         /\ Len(req[g].wire) >= 2
         /\ IsRefresh(req[g].wire[2])
         /\ req[g].wire[2].status = "200")
            => ~(/\ req[h].pc = "done"
                 /\ req[h].wire[1].status = "401"
                 /\ req[h].outcome.kind = "ReauthorizationRequired")

\* C14: once the token endpoint has granted a refresh for refresh token R, no call
\* sends R to the token endpoint again.
C14_Exchanged(g, refreshToken) ==
    /\ req[g].handler = "xeroRequest"
    /\ Len(req[g].wire) >= 2
    /\ IsRefresh(req[g].wire[2])
    /\ req[g].wire[2].status = "200"
    /\ req[g].wire[2].grant = refreshToken

C14_ConsumedTokenNeverResent ==
    [][ \A h \in Handlers :
          (req[h].pc = "first" /\ req'[h].pc = "refresh")
             => \A g \in Handlers \ {h} : ~C14_Exchanged(g, req'[h].wire[2].grant)
      ]_vars

\* C15: every row of the store decrypts to the complete body of one answer of the
\* token endpoint: an access token together with the refresh token issued with it.
C15_StoredAsPair ==
    \A r \in xero_connections :
        /\ BundleOf(r) # IntegrityFailure
        /\ BundleOf(r).access_token # Undefined
        /\ BundleOf(r).refresh_token # Undefined
        /\ \E n \in 1 .. issued : BundleOf(r) = TokenResponse(n)

\* a row written by a callback and rewritten by the persist of a refresh: it holds
\* the refreshed access token and the refresh token that came with it
C15_Witness ==
    \E h \in Calls : \E r \in xero_connections :
        /\ req[h].pc = "retry"
        /\ r.created_at < r.last_synced
        /\ BundleOf(r).access_token = req[h].newTokens.access_token
        /\ BundleOf(r).refresh_token = req[h].newTokens.refresh_token
        /\ BundleOf(r).refresh_token # req[h].tokenInfo.refreshToken

\* C16: at most one row of the store is flagged is_system_connection.
C16_SingleSystemConnection ==
    Cardinality({ r \in xero_connections : r.is_system_connection }) <= 1

\* C17 (as amended): the persist of a granted refresh rewrites the row of
\* (connectionUserId, tenantId) if that row is still stored: it then holds the
\* granted bundle and a later last_synced, the current timestamp, whatever other
\* requests did to the store meanwhile; a row removed meanwhile is not written.
C17_Persists(h) ==
    /\ req[h].handler = "xeroRequest"
    /\ req[h].pc = "persist"
    /\ req'[h].pc = "retry"

C17_PersistRewritesRecord ==
    [][ \A h \in Handlers :
          C17_Persists(h) =>
            LET me   == req[h]
                was  == RowsOf(xero_connections, me.tokenInfo.connectionUserId,
                               me.tokenInfo.tenantId)
                is   == RowsOf(xero_connections', me.tokenInfo.connectionUserId,
                               me.tokenInfo.tenantId)
            IN  /\ \A r \in was : \E q \in is :
                      /\ BundleOf(q) = me.newTokens
                      /\ q.last_synced = now
                      /\ q.last_synced > r.last_synced
                      /\ q.last_synced > me.lastSynced
                /\ was = {} => xero_connections' = xero_connections
      ]_vars

\* C17 (as claimed): after the persist of a granted refresh the store holds a row
\* of (connectionUserId, tenantId) with the granted bundle and the new timestamp.
C17_PersistAlwaysLands ==
    [][ \A h \in Handlers :
          C17_Persists(h) =>
            \E q \in RowsOf(xero_connections', req[h].tokenInfo.connectionUserId,
                            req[h].tokenInfo.tenantId) :
                /\ BundleOf(q) = req[h].newTokens
                /\ q.last_synced = now
      ]_vars

\* a refresh persisted while another call on the same row is in flight with the
\* bundle the row held before
C17_Witness ==
    \E h, g \in Calls : \E r \in xero_connections :
        /\ h # g
        /\ req[h].pc = "retry"
        /\ req[g].pc \in {"first", "refresh"}
        /\ req[g].tokenInfo = req[h].tokenInfo
        /\ r.user_id = req[h].tokenInfo.connectionUserId
        /\ r.tenant_id = req[h].tokenInfo.tenantId
        /\ BundleOf(r) = req[h].newTokens
        /\ r.last_synced > req[g].lastSynced

\* C18 (as amended): a call by an unprivileged caller that has no row of its own
\* fails with NoConnectionError exactly when no row is flagged
\* is_system_connection; when one is, the call is served from it.
C18_StartsWithoutOwnRecord(h) ==
    /\ req[h].pc = "idle"
    /\ req'[h].handler = "xeroRequest"
    /\ ~req'[h].isAdmin
    /\ \A r \in xero_connections : r.user_id # req'[h].userId

C18_NoSystemConnection ==
    [][ \A h \in Handlers :
          C18_StartsWithoutOwnRecord(h) =>
            /\ (\A r \in xero_connections : ~r.is_system_connection)
                  <=> (req'[h].pc = "done" /\ req'[h].outcome.kind = "NoConnectionError")
            /\ (\E r \in xero_connections : r.is_system_connection)
                  => (req'[h].pc = "first" /\ req'[h].tokenInfo.connectionUserId # req'[h].userId)
      ]_vars

\* C18 (as claimed): a call by an unprivileged caller that has no row of its own
\* fails with NoConnectionError.
C18_NoOwnRecordFails ==
    [][ \A h \in Handlers :
          C18_StartsWithoutOwnRecord(h) =>
            (req'[h].pc = "done" /\ req'[h].outcome.kind = "NoConnectionError")
      ]_vars

\* an unprivileged caller is refused after the system connection it could have
\* used has been removed
C18_Witness ==
    \E h \in Calls :
        /\ req[h].pc = "done"
        /\ req[h].outcome.kind = "NoConnectionError"
        /\ ~req[h].isAdmin
        /\ xero_connections = {}
        /\ now > 1

\* C19: a delete of (userId, tenantId) removes the row with that key and nothing
\* else, and answers true exactly when there was such a row.
C19_Deletes(h) ==
    /\ req[h].pc = "idle"
    /\ req'[h].handler = "deleteConnection"

C19_RemoveExactlyOne ==
    [][ \A h \in Handlers :
          C19_Deletes(h) =>
            LET key == RowsOf(xero_connections, req'[h].userId, req'[h].chosen.tenantId)
            IN  /\ xero_connections' = xero_connections \ key
                /\ RowsOf(xero_connections', req'[h].userId, req'[h].chosen.tenantId) = {}
                /\ (key # {}) <=> (req'[h].outcome = Returned("success: true"))
                /\ (key = {}) <=> (req'[h].outcome = Returned("success: false"))
                /\ (key = {}) => xero_connections' = xero_connections
      ]_vars

\* a delete has answered true and the row of the same tenant under another owner
\* is still stored
C19_Witness ==
    \E h \in Handlers :
        /\ req[h].handler = "deleteConnection"
        /\ req[h].pc = "done"
        /\ req[h].outcome = Returned("success: true")
        /\ \E r \in xero_connections :
              /\ r.tenant_id = req[h].chosen.tenantId
              /\ r.user_id # req[h].userId

\* C20: whatever non-empty listing the connections endpoint answers with, the
\* organization the callback chooses is one of the listing and none of the listing
\* has a later createdDateUtc (of 2024-01-01 and 2024-06-01, in either order, the
\* one of 2024-06-01); the row saved is the row of that organization.
C20_Latest(conns, org) ==
    /\ \E i \in 1 .. Len(conns) : conns[i] = org
    /\ \A j \in 1 .. Len(conns) : conns[j].createdDateUtc <= org.createdDateUtc

C20_MostRecentTenant ==
    [][ \A h \in Handlers :
          /\ (req[h].handler = "callback" /\ req[h].pc = "conns" /\ req'[h].pc = "save")
                => \A conns \in ConnLists :
                      CallbackConnsAnswer(h, conns) => C20_Latest(conns, req'[h].chosen)
          /\ (req[h].handler = "callback" /\ req[h].pc = "save"
                /\ req'[h].outcome = Returned("connected"))
                => \E r \in xero_connections' :
                      /\ r.user_id = req[h].userId
                      /\ r.tenant_id = req[h].chosen.tenantId
                      /\ r.tenant_name = req[h].chosen.tenantName
                      /\ r.last_synced = now
                      /\ BundleOf(r) = req[h].newTokens
      ]_vars

\* the row a callback saved is the row of the organization of 2024-06-01 it chose
C20_Witness ==
    \E h \in Handlers : \E r \in xero_connections :
        /\ req[h].handler = "callback"
        /\ req[h].pc = "done"
        /\ req[h].outcome = Returned("connected")
        /\ req[h].chosen.createdDateUtc = 20240601
        /\ r.user_id = req[h].userId
        /\ r.tenant_id = req[h].chosen.tenantId
        /\ r.tenant_name = req[h].chosen.tenantName
        /\ BundleOf(r) = req[h].newTokens

\* the bundles of C21: with and without a refresh token
C21_Bundles ==
    { TokenResponse(n) : n \in 0 .. MaxIssued }
        \cup { [ access_token |-> AccessToken(n), refresh_token |-> Undefined ] :
                 n \in 0 .. MaxIssued }

\* the connections a find of (userId, tenantId) may return hold these tokens
C21_Found(rows, userId, tenantId) ==
    { connection.tokens : connection \in getXeroConnection(rows, userId, tenantId) }

\* C21: under either 32-byte key, decryptTokens of what encryptTokens returned
\* for a bundle returns that bundle, whatever the iv drawn; and the find of a key
\* after a save or a persisted refresh on it returns the bundle saved.
C21_RoundTrip ==
    /\ [](KeyConfigured =>
            \A b \in C21_Bundles : \A n \in 0 .. MaxClock + 1 :
                LET sealed == encryptTokens(b, randomBytes(n))
                IN  decryptTokens(sealed.encrypted, sealed.iv, sealed.tag) = {b})
    /\ [][ \A h \in Handlers :
             /\ (req[h].handler = "callback" /\ req[h].pc = "save"
                   /\ req'[h].outcome = Returned("connected"))
                   => C21_Found(xero_connections', req[h].userId, req[h].chosen.tenantId)
                         = { req[h].newTokens }
             /\ (req[h].handler = "xeroRequest" /\ req[h].pc = "persist"
                   /\ req'[h].pc = "retry"
                   /\ RowsOf(xero_connections, req[h].tokenInfo.connectionUserId,
                             req[h].tokenInfo.tenantId) # {})
                   => C21_Found(xero_connections', req[h].tokenInfo.connectionUserId,
                                req[h].tokenInfo.tenantId) = { req[h].newTokens }
         ]_vars

\* under the other key: a call has read the bundle a refresh persisted, from a row
\* sealed under that key
C21_Witness ==
    \E h \in Calls : \E r \in xero_connections :
        /\ env.PRODIT_TOKEN_KEY = OtherKey
        /\ req[h].pc = "first"
        /\ Untouched(r)
        /\ fromBase64(r.encrypted_tokens)[2] = OtherKey
        /\ r.created_at < r.last_synced
        /\ r.user_id = req[h].tokenInfo.connectionUserId
        /\ r.tenant_id = req[h].tokenInfo.tenantId
        /\ req[h].tokenInfo.accessToken = TokenResponse(2).access_token
        /\ req[h].tokenInfo.refreshToken = TokenResponse(2).refresh_token

\* what a row's ciphertext was sealed from: the key, the iv and the bundle, and
\* the bytes encryptTokens returned for them
C22_SealedBundle(r) == JSONparse(fromBase64(r.encrypted_tokens)[4])
C22_Seal(r) ==
    LET ciphertext == fromBase64(r.encrypted_tokens)
        encrypted  == cipherUpdate(ciphertext[2], ciphertext[3], ciphertext[4])
    IN  [ key       |-> ciphertext[2],
          encrypted |-> encrypted,
          iv        |-> ciphertext[3],
          tag       |-> getAuthTag(ciphertext[2], ciphertext[3], encrypted) ]

C22_Opened(r) == decryptTokens(r.encrypted_tokens, r.encryption_iv, r.encryption_tag)

\* a stored text is not, character for character, the text encryptTokens returned
C22_TextsDiffer(r) ==
    \/ r.encrypted_tokens # toBase64(C22_Seal(r).encrypted)
    \/ r.encryption_iv    # toBase64(C22_Seal(r).iv)
    \/ r.encryption_tag   # toBase64(C22_Seal(r).tag)

\* the stored texts decode to other bytes than encryptTokens returned, a tag
\* that is the first bytes of the tag returned apart
C22_BytesDiffer(r) ==
    \/ fromBase64(r.encrypted_tokens) # C22_Seal(r).encrypted
    \/ fromBase64(r.encryption_iv)    # C22_Seal(r).iv
    \/ fromBase64(r.encryption_tag) \notin { C22_Seal(r).tag, Truncated(C22_Seal(r).tag) }

\* the rows a call of (userId, isAdmin) reads
C22_Read(userId, isAdmin) == MostRecent(C6_Eligible(xero_connections, userId, isAdmin))

\* C22 (as amended): with a key configured, decryptTokens returns nothing but the
\* bundle sealed in the triple or fails; it fails whenever the ciphertext, the iv
\* or the tag decodes to other bytes than were sealed (a tag cut to its first
\* bytes apart) or the key is not the sealing key.  A call that reads such a row
\* ends with the integrity error and sends nothing, and a call that goes on
\* carries the bundle sealed in the triple it read.
C22_TamperDetected ==
    /\ [](KeyConfigured =>
            \A r \in xero_connections :
                /\ C22_Opened(r) \subseteq { C22_SealedBundle(r), IntegrityFailure }
                /\ (C22_BytesDiffer(r) \/ C22_Seal(r).key # env.PRODIT_TOKEN_KEY)
                      => C22_Opened(r) = { IntegrityFailure }
                /\ (~C22_BytesDiffer(r) /\ C22_Seal(r).key = env.PRODIT_TOKEN_KEY)
                      => C22_SealedBundle(r) \in C22_Opened(r))
    /\ [][ \A h \in Handlers :
             (KeyConfigured /\ req[h].pc = "idle" /\ req'[h].handler = "xeroRequest") =>
                LET me   == req'[h]
                    read == C22_Read(me.userId, me.isAdmin)
                IN  /\ (\E r \in read : C22_Opened(r) = { IntegrityFailure })
                          => /\ me.pc = "done"
                             /\ me.outcome.kind = "IntegrityError"
                             /\ me.wire = <<>>
                    /\ me.pc = "first"
                          => \E r \in read :
                                /\ me.tokenInfo.accessToken = C22_SealedBundle(r).access_token
                                /\ me.tokenInfo.refreshToken = C22_SealedBundle(r).refresh_token
                                /\ me.wire[1].bearer = C22_SealedBundle(r).access_token
         ]_vars

\* C22 (as claimed): with a key configured, decryptTokens fails on every row of
\* which a stored text differs in any way from the text encryptTokens returned, or
\* of which the sealing key is not the key configured.
C22_AnyDifferenceFails ==
    KeyConfigured =>
        \A r \in xero_connections :
            (C22_TextsDiffer(r) \/ C22_Seal(r).key # env.PRODIT_TOKEN_KEY)
                => C22_Opened(r) = { IntegrityFailure }

\* a call has ended with the integrity error on a row whose stored tag has a bit
\* flipped
C22_Witness ==
    \E h \in Calls : \E r \in C22_Read(req[h].userId, req[h].isAdmin) :
        /\ req[h].pc = "done"
        /\ req[h].outcome.kind = "IntegrityError"
        /\ req[h].wire = <<>>
        /\ r.encryption_tag = Flipped(toBase64(C22_Seal(r).tag))
        /\ C22_Seal(r).key = env.PRODIT_TOKEN_KEY

\* C23: while PRODIT_TOKEN_KEY is not set, no handler has sent anything to the
\* provider: no code is exchanged, no tenant listing asked for, no call proxied.
C23_NoRequestWithoutKey ==
    ~KeyConfigured => \A h \in Handlers : req[h].wire = <<>>

\* C24: no two calls have a refresh exchange for the same row in progress at the
\* same time.
C24_RefreshesSerialized ==
    \A h, g \in Calls :
        (/\ h # g
         /\ req[h].pc = "refresh"
         /\ req[g].pc = "refresh")
            => \/ req[h].tokenInfo.connectionUserId # req[g].tokenInfo.connectionUserId
               \/ req[h].tokenInfo.tenantId # req[g].tokenInfo.tenantId

\* a call that has had a refresh granted for the row of (userId, tenantId)
C25_Granted(g, userId, tenantId) ==
    /\ req[g].handler = "xeroRequest"
    /\ req[g].pc \in {"persist", "retry"}
    /\ req[g].tokenInfo.connectionUserId = userId
    /\ req[g].tokenInfo.tenantId = tenantId

\* C25: of two concurrent calls on one row that were both answered 401 and both
\* had their refresh granted, each persist leaves exactly one row of the key,
\* holding the bundle that persist wrote, whole; nothing but a persist changes the
\* row, so that the row holds the bundle of the persist that ran last, and its
\* access token and refresh token are those of one answer of the token endpoint.
C25_LastPersistWins ==
    /\ [][ /\ \A h \in Handlers :
                (C17_Persists(h)
                   /\ \E g \in Handlers \ {h} :
                         C25_Granted(g, req[h].tokenInfo.connectionUserId,
                                     req[h].tokenInfo.tenantId))
                   => \E q \in xero_connections' :
                         /\ RowsOf(xero_connections', req[h].tokenInfo.connectionUserId,
                                   req[h].tokenInfo.tenantId) = {q}
                         /\ BundleOf(q) = req[h].newTokens
                         /\ Cardinality(xero_connections') = Cardinality(xero_connections)
           /\ xero_connections' # xero_connections => \E h \in Handlers : C17_Persists(h)
         ]_vars
    /\ [](\A h, g \in Calls :
            (/\ h # g
             /\ req[h].pc = "retry"
             /\ req[g].pc = "retry"
             /\ req[h].tokenInfo.connectionUserId = req[g].tokenInfo.connectionUserId
             /\ req[h].tokenInfo.tenantId = req[g].tokenInfo.tenantId)
                => \E q \in xero_connections :
                      /\ RowsOf(xero_connections, req[h].tokenInfo.connectionUserId,
                                req[h].tokenInfo.tenantId) = {q}
                      /\ BundleOf(q) \in { req[h].newTokens, req[g].newTokens }
                      /\ \E n \in 1 .. issued : BundleOf(q) = TokenResponse(n))

\* both calls have persisted and await their retries; the row holds the bundle
\* granted first, whose persist ran last
C25_Witness ==
    \E h, g \in Calls : \E q \in xero_connections :
        /\ h # g
        /\ req[h].pc = "retry"
        /\ req[g].pc = "retry"
        /\ req[h].tokenInfo = req[g].tokenInfo
        /\ req[h].newTokens = TokenResponse(1)
        /\ req[g].newTokens = TokenResponse(2)
        /\ RowsOf(xero_connections, req[h].tokenInfo.connectionUserId,
                  req[h].tokenInfo.tenantId) = {q}
        /\ BundleOf(q) = TokenResponse(1)

\* C26: no step of a callback other than the save that ends it with "connected"
\* changes a row: a callback that fails the state check, has its exchange
\* rejected, fails to get the tenant listing or is listed no organization ends
\* with the store as it found it.
C26_Failed ==
    {"InvalidState", "ExchangeError", "UpstreamError", "NoTenantFoundError"}

C26_FailedCallbackLeavesStore ==
    [][ \A h \in Handlers :
          /\ (req'[h].handler = "callback" /\ req'[h] # req[h]
                /\ req'[h].outcome # Returned("connected"))
                => xero_connections' = xero_connections
          /\ (req'[h].handler = "callback" /\ req'[h] # req[h]
                /\ req'[h].outcome.kind \in C26_Failed)
                => /\ req'[h].pc = "done"
                   /\ req[h].pc \in {"idle", "exchange", "conns"}
                   /\ xero_connections' = xero_connections
      ]_vars

\* a callback of a user who has a connection was listed no organization: the
\* row the user's earlier callback saved is as that callback wrote it
C26_Witness ==
    \E h \in Handlers : \E r \in xero_connections :
        /\ req[h].handler = "callback"
        /\ req[h].pc = "done"
        /\ req[h].outcome.kind = "NoTenantFoundError"
        /\ req[h].newTokens = TokenResponse(2)
        /\ r.user_id = req[h].userId
        /\ r.last_synced = r.created_at
        /\ BundleOf(r) = TokenResponse(1)

\* C27: the system disconnect leaves no row flagged is_system_connection; a
\* flagged row appears in a store that has none only by the save of an
\* administrator's callback; while there is none, every call of an unprivileged
\* caller ends at once with NoConnectionError; and the persist of a call whose
\* row is gone writes nothing.
C27_SystemRows(rows) == { r \in rows : r.is_system_connection }

C27_DisconnectHolds ==
    [][ /\ \A h \in Handlers :
             /\ (req[h].pc = "idle" /\ req'[h].handler = "disconnectSystem")
                   => C27_SystemRows(xero_connections') = {}
             /\ (req[h].pc = "idle" /\ req'[h].handler = "xeroRequest"
                   /\ ~req'[h].isAdmin /\ C27_SystemRows(xero_connections) = {})
                   => /\ req'[h].pc = "done"
                      /\ req'[h].outcome.kind = "NoConnectionError"
                      /\ req'[h].wire = <<>>
             /\ (C17_Persists(h)
                   /\ RowsOf(xero_connections, req[h].tokenInfo.connectionUserId,
                             req[h].tokenInfo.tenantId) = {})
                   => xero_connections' = xero_connections
        /\ (C27_SystemRows(xero_connections) = {} /\ C27_SystemRows(xero_connections') # {})
              => \E h \in Handlers :
                    /\ req[h].handler = "callback"
                    /\ req[h].pc = "save"
                    /\ req[h].isAdmin
                    /\ req'[h].outcome = Returned("connected")
      ]_vars

\* a call in flight at the disconnect has since had its refresh granted and
\* persisted, and awaits its retry; the store holds no row, and an unprivileged
\* call started after that has ended with NoConnectionError
C27_Witness ==
    \E h, g \in Calls :
        /\ req[h].pc = "retry"
        /\ req[h].wire[2].status = "200"
        /\ xero_connections = {}
        /\ req[g].pc = "done"
        /\ ~req[g].isAdmin
        /\ req[g].outcome.kind = "NoConnectionError"

NextInstances ==
    \/ \E c \in Callers, o \in Organizations, t \in Tenants, n \in 1..MaxIssued :
          SaveXeroInstanceSelect(c, o, t, n)
    \/ \E c \in Callers : SaveXeroInstanceUpdate(c)
    \/ \E c \in Callers : SaveXeroInstanceInsert(c)
    \/ \E c \in Callers : SaveXeroInstanceReturn(c)
    \/ \E id \in InstanceIds : DisconnectXeroInstance(id)

SpecInstances == Init /\ [][NextInstances]_vars

\* C29: a callback that has reached the token exchange belongs to a session that
\* was sent to the provider by GET /auth/xero before.
C29_ExchangeHasRedirect ==
    \A h \in Handlers :
        (req[h].handler = "callback" /\ req[h].pc \in {"exchange", "conns", "save"})
            => req[h].userId \in redirected

\* C30: a call of saveXeroInstance that has ended while a row of its
\* (organization, tenant) exists has ended without an error.
C30_SavesComplete ==
    \A c \in Callers :
        (/\ saving[c].pc = "done"
         /\ SelectInstance(xero_instances, saving[c].organizationId,
                           saving[c].tenantId) # {})
            => saving[c].result # UniqueViolation

====
